---- MODULE Spec2Model ----
(***************************************************************************)
(* django_model_changes/changes.py: one model instance, its               *)
(* InstanceChanges tracker (instance._changes), the signal handlers of    *)
(* ModelChanges and the post_change signal.                               *)
(***************************************************************************)
EXTENDS Integers, Sequences, FiniteSets, TLC

\* ------------------------------------------------------------------ bounds
\* _save_state calls (the one in __init__ included) a behaviour may make.
MaxCaptures == 4

\* ------------------------------------------------------- program constants
SAVE == 0
DELETE == 1
\* The default event_type='save' of _save_state: a value that is neither
\* SAVE nor DELETE.
DefaultEventType == 2
\* Python's None, as a value distinct from every key.
None == -1

\* --------------------------------------------------------- the model class
\* instance._meta.local_fields of the tracked model: a primary key, a plain
\* column and a foreign key (field.rel set) whose descriptor caches the
\* related object under cache_name.
local_fields ==
    << [name |-> "id",    attname |-> "id",       rel |-> FALSE, cache_name |-> ""],
       [name |-> "name",  attname |-> "name",     rel |-> FALSE, cache_name |-> ""],
       [name |-> "owner", attname |-> "owner_id", rel |-> TRUE,  cache_name |-> "_owner_cache"] >>

\* instance._meta.pk.attname
pk_attname == "id"

\* Values the fields take: no key or the key 1, two names, no owner or the
\* owner 1. A related object is known by its key; the one that gets cached
\* is the object 1.
PkValues    == {None, 1}
NameValues  == {"x", "y"}
OwnerValues == {None, 1}
RelatedObjects == {1}

FieldValues(attr) ==
    CASE attr = "id"           -> PkValues
      [] attr = "name"         -> NameValues
      [] attr = "owner_id"     -> OwnerValues
      [] attr = "_owner_cache" -> RelatedObjects

AttNames == {"id", "name", "owner_id"}

\* The instance __dict__ with every column set and no relation cached yet
\* (CacheRelated fills the cache, before or after post_init).
NewInstances ==
    { [a \in AttNames |-> IF a = "id" THEN i ELSE IF a = "name" THEN n ELSE o] :
        i \in PkValues, n \in NameValues, o \in OwnerValues }

\* --------------------------------------------------------------- the state
VARIABLES
    instance,   \* the live instance: attribute name -> value
    tracked,    \* hasattr(instance, '_changes')
    _states,    \* instance._changes._states
    stateNo,    \* for each entry of _states, the number of the capture that took it
    captures,   \* completed _save_state calls
    sent,       \* post_change.send calls
    seen,       \* _states as the receivers of the last post_change saw it
    last,       \* the last operation and the exception it raised
    memo,       \* what changes() returned, if it was the last call and nothing was changed since
    returned,   \* the object old_instance()/previous_instance() returned, if it was the last call
    _registry,  \* ModelChangesRegistry._registry: model -> the ModelChanges made for it
    made        \* ModelChanges objects constructed so far

vars == <<instance, tracked, _states, stateNo, captures, sent, seen, last, memo,
          returned, _registry, made>>

\* The registry's share of the state.
regVars == <<_registry, made>>

\* Object identities: the tracked instance, a newly constructed instance, and
\* no object returned.
TrackedObject == "self.instance"
NewObject == "self.instance.__class__()"
NoObject == "none"

NoError == ""
Op(name) == [op |-> name, exc |-> NoError]
Raised(name, e) == [op |-> name, exc |-> e]

\* A query's outcome: the mapping it returns or the exception it raises.
Returned(v) == [exc |-> NoError, val |-> v]
Raises(e) == [exc |-> e, val |-> << >>]
NoCall == Raises("not called")

\* ------------------------------------------------------------ InstanceChanges
Put(d, k, v) == [x \in DOMAIN d \cup {k} |-> IF x = k THEN v ELSE d[x]]

\* One turn of the loop of current_state.
ReadField(fields, inst, field) ==
    LET f1 == Put(fields, field.attname, inst[field.attname])
    IN  IF field.rel /\ field.cache_name \in DOMAIN inst
        THEN Put(f1, field.name, inst[field.cache_name])
        ELSE f1

RECURSIVE ReadFields(_, _, _)
ReadFields(fields, inst, i) ==
    IF i > Len(local_fields) THEN fields
    ELSE ReadFields(ReadField(fields, inst, local_fields[i]), inst, i + 1)

\* Variant: current_state() answers from the history once a snapshot exists.
current_state_from_history(inst) ==
    IF _states = << >> THEN ReadFields(<< >>, inst, 1) ELSE _states[Len(_states)]

\* current_state(): a fresh read of the instance's fields.
current_state(inst) == ReadFields(<< >>, inst, 1)

\* previous_state(): _states[1] when there are two entries, else _states[0]
\* (Python counts from 0, a TLA+ sequence from 1).
\* Variant: previous_state() always reads _states[0].
previous_index_oldest == IF Len(_states) > 1 THEN 1 ELSE 1

previous_index == IF Len(_states) > 1 THEN 2 ELSE 1

previous_state == _states[previous_index]

\* Variant: old_state() reads the last entry (self._states[-1]).
old_index_newest == Len(_states)

\* old_state(): _states[0].
old_index == 1

old_state == _states[old_index]

\* Variant: the comparison is inverted (was == current[key]).
_changes_of_equal_keys(other, current) ==
    IF DOMAIN other \subseteq DOMAIN current
    THEN Returned([key \in {k \in DOMAIN other : other[k] = current[k]} |->
                      <<other[key], current[key]>>])
    ELSE Raises("KeyError")

\* _changes(other, current): the keys of other whose value differs in current;
\* current[key] raises KeyError for a key of other that current lacks.
_changes(other, current) ==
    IF DOMAIN other \subseteq DOMAIN current
    THEN Returned([key \in {k \in DOMAIN other : other[k] /= current[k]} |->
                      <<other[key], current[key]>>])
    ELSE Raises("KeyError")

changes == _changes(previous_state, current_state(instance))

old_changes == _changes(old_state, current_state(instance))

previous_changes == _changes(old_state, previous_state)

\* self.instance.__class__(): a new instance with every column at its default
\* and no relation cached.
NameDefault == ""

NewModelInstance ==
    [a \in AttNames |-> IF a = "name" THEN NameDefault ELSE None]

\* setattr(instance, key, value): the relation's name goes through its
\* descriptor, which stores the related object in the cache and its key in
\* the attname; every other key is a plain attribute.
SetAttr(inst, key, value) ==
    IF \E i \in 1..Len(local_fields) : local_fields[i].rel /\ local_fields[i].name = key
    THEN LET f == local_fields[CHOOSE i \in 1..Len(local_fields) :
                                  local_fields[i].rel /\ local_fields[i].name = key]
         IN  Put(Put(inst, f.attname, value), f.cache_name, value)
    ELSE Put(inst, key, value)

\* The orders in which state.items() can yield the keys of a dict.
ItemOrders(keys) ==
    {o \in [1..Cardinality(keys) -> keys] : \A i, j \in DOMAIN o : o[i] = o[j] => i = j}

RECURSIVE SetAttrs(_, _, _, _)
SetAttrs(inst, state, order, i) ==
    IF i > Len(order) THEN inst
    ELSE SetAttrs(SetAttr(inst, order[i], state[order[i]]), state, order, i + 1)

\* _instance_from_state(state): the instances the loop can build, one for each
\* order of the items.
_instance_from_state(state) ==
    {SetAttrs(NewModelInstance, state, o, 1) : o \in ItemOrders(DOMAIN state)}

old_instance == _instance_from_state(old_state)

previous_instance == _instance_from_state(previous_state)

\* Python's bool() of a key: None and 0 are false.
Bool(v) == v /= None /\ v /= 0

was_persisted == Bool(old_state[pk_attname])

is_persisted == Bool(instance[pk_attname])

\* Variant: the history keeps three entries (len(self._states) > 3).
Push_keep_three(seq, x) ==
    LET appended == Append(seq, x)
    IN  IF Len(appended) > 3 THEN Tail(appended) ELSE appended

\* Variant: the newest entry is dropped (self._states.pop()).
Push_pop_newest(seq, x) ==
    LET appended == Append(seq, x)
    IN  IF Len(appended) > 2 THEN SubSeq(appended, 1, 2) ELSE appended

\* self._states.append(x), then self._states.pop(0) when more than 2 remain.
Push(seq, x) ==
    LET appended == Append(seq, x)
    IN  IF Len(appended) > 2 THEN Tail(appended) ELSE appended

\* post_change.send(sender=..., instance=self.instance, changes=self): the
\* receivers run now and see the tracker as it is at this point.
post_change_send(st) ==
    /\ sent' = sent + 1
    /\ seen' = st

\* Variant: a DELETE capture leaves the primary key as it is.
_save_state_keeps_pk(new_instance, event_type) ==
    LET pushed == Push(_states, current_state(instance))
    IN  /\ captures < MaxCaptures
        /\ instance' = instance
        /\ _states' = pushed
        /\ stateNo' = Push(stateNo, captures + 1)
        /\ captures' = captures + 1
        /\ memo' = NoCall
        /\ returned' = NoObject
        /\ UNCHANGED regVars
        /\ IF ~new_instance
           THEN post_change_send(pushed)
           ELSE UNCHANGED <<sent, seen>>

\* Variant: post_change is sent before the snapshot is appended.
_save_state_sends_first(new_instance, event_type) ==
    LET inst1 == IF event_type = DELETE
                 THEN [instance EXCEPT ![pk_attname] = None]
                 ELSE instance
        pushed == Push(_states, current_state(inst1))
    IN  /\ captures < MaxCaptures
        /\ instance' = inst1
        /\ _states' = pushed
        /\ stateNo' = Push(stateNo, captures + 1)
        /\ captures' = captures + 1
        /\ memo' = NoCall
        /\ returned' = NoObject
        /\ UNCHANGED regVars
        /\ IF ~new_instance
           THEN post_change_send(_states)
           ELSE UNCHANGED <<sent, seen>>

\* Variant: the primary key is cleared after the fields were read.
_save_state_clears_pk_late(new_instance, event_type) ==
    LET inst1 == IF event_type = DELETE
                 THEN [instance EXCEPT ![pk_attname] = None]
                 ELSE instance
        pushed == Push(_states, current_state(instance))
    IN  /\ captures < MaxCaptures
        /\ instance' = inst1
        /\ _states' = pushed
        /\ stateNo' = Push(stateNo, captures + 1)
        /\ captures' = captures + 1
        /\ memo' = NoCall
        /\ returned' = NoObject
        /\ UNCHANGED regVars
        /\ IF ~new_instance
           THEN post_change_send(pushed)
           ELSE UNCHANGED <<sent, seen>>

\* InstanceChanges._save_state(new_instance, event_type)
_save_state(new_instance, event_type) ==
    LET inst1 == IF event_type = DELETE
                 THEN [instance EXCEPT ![pk_attname] = None]
                 ELSE instance
        pushed == Push(_states, current_state(inst1))
    IN  /\ captures < MaxCaptures
        /\ instance' = inst1
        /\ _states' = pushed
        /\ stateNo' = Push(stateNo, captures + 1)
        /\ captures' = captures + 1
        /\ memo' = NoCall
        /\ returned' = NoObject
        /\ UNCHANGED regVars
        /\ IF ~new_instance
           THEN post_change_send(pushed)
           ELSE UNCHANGED <<sent, seen>>

\* ---------------------------------------------------------------- ModelChanges
\* _post_init: instance._changes = InstanceChanges(instance, self); __init__
\* starts from _states = [] and captures with new_instance=True.
_post_init ==
    /\ ~tracked
    /\ _states = << >>
    /\ tracked' = TRUE
    /\ _save_state(TRUE, DefaultEventType)
    /\ last' = Op("_post_init")

_post_save ==
    IF tracked
    THEN /\ _save_state(FALSE, SAVE)
         /\ last' = Op("_post_save")
         /\ UNCHANGED tracked
    ELSE /\ last' = Op("_post_save")
         /\ UNCHANGED <<instance, tracked, _states, stateNo, captures, sent, seen, memo, returned, _registry, made>>

\* What getattr finds on the instance: its __dict__ and, once attached, _changes.
\* _save_state is a method of InstanceChanges, not of the model.
InstanceAttributes == DOMAIN instance \cup (IF tracked THEN {"_changes"} ELSE {})

\* _post_delete looks _save_state up on the instance itself.
_post_delete ==
    IF tracked
    THEN IF "_save_state" \in InstanceAttributes
         THEN /\ _save_state(FALSE, DELETE)
              /\ last' = Op("_post_delete")
              /\ UNCHANGED tracked
         ELSE /\ last' = Raised("_post_delete", "AttributeError")
              /\ UNCHANGED <<instance, tracked, _states, stateNo, captures, sent, seen, memo, returned, _registry, made>>
    ELSE /\ last' = Op("_post_delete")
         /\ UNCHANGED <<instance, tracked, _states, stateNo, captures, sent, seen, memo, returned, _registry, made>>

\* ------------------------------------------------------------------- callers
\* instance._changes._save_state(new_instance=False, event_type=e) called on
\* the tracker.
CallSaveState(e) ==
    /\ tracked
    /\ _save_state(FALSE, e)
    /\ last' = Op(IF e = DELETE THEN "_save_state(DELETE)" ELSE "_save_state(SAVE)")
    /\ UNCHANGED tracked

\* Variant: changes() records the state it read as a new snapshot.
CallChanges_and_capture ==
    /\ tracked
    /\ memo' = changes
    /\ _states' = Push(_states, current_state(instance))
    /\ returned' = NoObject
    /\ UNCHANGED <<instance, tracked, stateNo, captures, sent, seen, last, _registry, made>>

\* The exceptions a field read can raise: getattr on the instance, the lookup
\* of the descriptor in the class __dict__.
ReadErrors == {"AttributeError", "KeyError"}

\* Variant: an empty dict is appended before the fields are read into it.
_save_state_read_raises_after_append(event_type, exc) ==
    /\ instance' = (IF event_type = DELETE
                    THEN [instance EXCEPT ![pk_attname] = None]
                    ELSE instance)
    /\ _states' = Append(_states, << >>)
    /\ last' = Raised("_save_state", exc)
    /\ memo' = NoCall
    /\ returned' = NoObject
    /\ UNCHANGED <<tracked, stateNo, captures, sent, seen, _registry, made>>

\* _save_state when self.current_state() raises exc: the key was cleared if
\* the event is DELETE, the append and all that follows it do not happen.
_save_state_read_raises(event_type, exc) ==
    /\ instance' = (IF event_type = DELETE
                    THEN [instance EXCEPT ![pk_attname] = None]
                    ELSE instance)
    /\ last' = Raised("_save_state", exc)
    /\ memo' = NoCall
    /\ returned' = NoObject
    /\ UNCHANGED <<tracked, _states, stateNo, captures, sent, seen, _registry, made>>

\* A capture asked of the tracker (by _post_save or by a caller) during which
\* a field read raises.
CallSaveStateReadRaises(e, exc) ==
    /\ tracked
    /\ _save_state_read_raises(e, exc)

\* instance._changes.changes()
CallChanges ==
    /\ tracked
    /\ memo' = changes
    /\ returned' = NoObject
    /\ UNCHANGED <<instance, tracked, _states, stateNo, captures, sent, seen, last, _registry, made>>

\* setattr(instance, attr, v) with a new value for a column.
SetField(attr, v) ==
    /\ instance[attr] /= v
    /\ instance' = [instance EXCEPT ![attr] = v]
    /\ last' = Op("setattr")
    /\ memo' = NoCall
    /\ returned' = NoObject
    /\ UNCHANGED regVars
    /\ UNCHANGED <<tracked, _states, stateNo, captures, sent, seen>>

\* The relation descriptor stores the related object v in the cache.
CacheRelated(v) ==
    /\ IF "_owner_cache" \in DOMAIN instance THEN instance["_owner_cache"] /= v ELSE TRUE
    /\ instance' = Put(instance, "_owner_cache", v)
    /\ last' = Op("setattr")
    /\ memo' = NoCall
    /\ returned' = NoObject
    /\ UNCHANGED regVars
    /\ UNCHANGED <<tracked, _states, stateNo, captures, sent, seen>>

\* The relation cache is dropped (del instance._owner_cache).
DropRelatedCache ==
    /\ "_owner_cache" \in DOMAIN instance
    /\ instance' = [a \in DOMAIN instance \ {"_owner_cache"} |-> instance[a]]
    /\ last' = Op("delattr")
    /\ memo' = NoCall
    /\ returned' = NoObject
    /\ UNCHANGED regVars
    /\ UNCHANGED <<tracked, _states, stateNo, captures, sent, seen>>

\* Variant: the snapshot is assigned onto self.instance, which is returned.
CallOldInstance_on_tracked_instance ==
    /\ tracked
    /\ instance' \in {SetAttrs(instance, old_state, o, 1) : o \in ItemOrders(DOMAIN old_state)}
    /\ returned' = TrackedObject
    /\ memo' = NoCall
    /\ UNCHANGED <<tracked, _states, stateNo, captures, sent, seen, last,
                   _registry, made>>

\* instance._changes.old_instance(): the object returned is the one
\* _instance_from_state constructs; its attributes are old_instance.
CallOldInstance ==
    /\ tracked
    /\ returned' = NewObject
    /\ memo' = NoCall
    /\ UNCHANGED <<instance, tracked, _states, stateNo, captures, sent, seen, last,
                   _registry, made>>

\* instance._changes.previous_instance(): as old_instance(), from
\* previous_state().
CallPreviousInstance ==
    /\ tracked
    /\ returned' = NewObject
    /\ memo' = NoCall
    /\ UNCHANGED <<instance, tracked, _states, stateNo, captures, sent, seen, last,
                   _registry, made>>

\* The queries that return a mapping or a boolean.
ReadQueries ==
    {"current_state", "previous_state", "old_state", "old_changes",
     "previous_changes", "was_persisted", "is_persisted"}

\* instance._changes.<q>() for one of them: a value is computed from _states
\* and the instance, nothing is assigned.
CallReadQuery ==
    /\ tracked
    /\ ReadQueries /= {}
    /\ UNCHANGED vars

\* ------------------------------------------------------------ specification
\* The registry after register(Model) for the model of the tracked instance.
RegisteredOnce == [m \in {"Model"} |-> 1]

Init ==
    /\ instance \in NewInstances
    /\ tracked = FALSE
    /\ _states = << >>
    /\ stateNo = << >>
    /\ captures = 0
    /\ sent = 0
    /\ seen = << >>
    /\ last = Op("__init__")
    /\ memo = NoCall
    /\ returned = NoObject
    /\ _registry = RegisteredOnce
    /\ made = 1

Next ==
    \/ _post_init
    \/ _post_save
    \/ _post_delete
    \/ \E e \in {SAVE, DELETE} : CallSaveState(e)
    \/ \E e \in {SAVE, DELETE} : \E exc \in ReadErrors : CallSaveStateReadRaises(e, exc)
    \/ CallChanges
    \/ CallOldInstance
    \/ CallPreviousInstance
    \/ CallReadQuery
    \/ \E attr \in AttNames : \E v \in FieldValues(attr) : SetField(attr, v)
    \/ \E v \in RelatedObjects : CacheRelated(v)
    \/ DropRelatedCache

Spec == Init /\ [][Next]_vars

\* ---------------------------------------------------------------- registry
\* Bound: the ModelChanges objects one run constructs.
MaxModelChanges == 4

\* The model classes handed to the registry; the one whose _meta.abstract
\* is set.
Models == {"Model", "Other", "AbstractModel"}
AbstractModels == {"AbstractModel"}

\* model_or_iterable: one model class (wrapped into a one-element list) or
\* an iterable of them.
ModelArgs == {<<m>> : m \in Models} \cup {<<m, n>> : m \in Models, n \in Models}

\* The default of register's allow_existing parameter.
allow_existing_default == TRUE

\* ModelChangesRegistry.__init__: the empty registry.
EmptyRegistry == [m \in {} |-> 0]

\* The loop of register from its i-th model on: reg is the registry and n
\* the count of ModelChanges constructed so far. A raise ends the loop and
\* keeps what earlier iterations stored.
RECURSIVE register(_, _, _, _, _)
register(reg, n, model_or_iterable, allow_existing, i) ==
    IF i > Len(model_or_iterable)
    THEN [_registry |-> reg, made |-> n, exc |-> NoError]
    ELSE LET model == model_or_iterable[i]
         IN  IF model \in AbstractModels
             THEN [_registry |-> reg, made |-> n, exc |-> "ImproperlyConfigured"]
             ELSE IF model \in DOMAIN reg /\ ~allow_existing
             THEN [_registry |-> reg, made |-> n, exc |-> "AlreadyRegistered"]
             ELSE register([m \in DOMAIN reg \cup {model} |->
                               IF m = model THEN n + 1 ELSE reg[m]],
                           n + 1, model_or_iterable, allow_existing, i + 1)

\* The loop of unregister from its i-th model on.
RECURSIVE unregister(_, _, _)
unregister(reg, model_or_iterable, i) ==
    IF i > Len(model_or_iterable)
    THEN [_registry |-> reg, exc |-> NoError]
    ELSE LET model == model_or_iterable[i]
         IN  IF model \notin DOMAIN reg
             THEN [_registry |-> reg, exc |-> "NotRegistered"]
             ELSE unregister([m \in DOMAIN reg \ {model} |-> reg[m]],
                             model_or_iterable, i + 1)

instVars == <<instance, tracked, _states, stateNo, captures, sent, seen, memo, returned>>

\* registry.register(model_or_iterable, allow_existing)
Register(model_or_iterable, allow_existing) ==
    LET r == register(_registry, made, model_or_iterable, allow_existing, 1)
    IN  /\ made + Len(model_or_iterable) <= MaxModelChanges
        /\ _registry' = r._registry
        /\ made' = r.made
        /\ last' = [op |-> "register", exc |-> r.exc]
        /\ UNCHANGED instVars

\* registry.unregister(model_or_iterable)
Unregister(model_or_iterable) ==
    LET r == unregister(_registry, model_or_iterable, 1)
    IN  /\ _registry' = r._registry
        /\ last' = [op |-> "unregister", exc |-> r.exc]
        /\ UNCHANGED made
        /\ UNCHANGED instVars

\* The module-level registry = ModelChangesRegistry(), before any model
\* class is registered and before any instance is tracked.
InitRegistry ==
    /\ instance = NewModelInstance
    /\ tracked = FALSE
    /\ _states = << >>
    /\ stateNo = << >>
    /\ captures = 0
    /\ sent = 0
    /\ seen = << >>
    /\ last = Op("__init__")
    /\ memo = NoCall
    /\ returned = NoObject
    /\ _registry = EmptyRegistry
    /\ made = 0

NextRegistry ==
    \/ \E a \in ModelArgs : \E allow_existing \in BOOLEAN : Register(a, allow_existing)
    \/ \E a \in ModelArgs : Unregister(a)

SpecRegistry == InitRegistry /\ [][NextRegistry]_vars

\* ------------------------------------------------------------- vocabulary
\* The operations that end in a completed _save_state.
CaptureOps == {"_post_init", "_post_save", "_save_state(SAVE)", "_save_state(DELETE)"}

\* Nothing was assigned to the instance since its last capture.
JustCaptured == tracked /\ last.op \in CaptureOps /\ last.exc = NoError

\* The most recently captured snapshot.
LatestSnapshot == _states[Len(_states)]

\* ------------------------------------------------------------------ claims
\* C1 (as stated): current_state() is the most recently captured snapshot,
\* the last element of the history, whatever was assigned to the instance
\* since that capture.
C1_CurrentIsLatestSnapshot ==
    tracked => current_state(instance) = LatestSnapshot

\* C1 (amended): current_state() is a fresh read of the live instance: every
\* column has the value the instance holds now, the relation key is present
\* exactly when the relation cache is; it equals the most recently captured
\* snapshot as long as nothing was assigned since that capture.
C1_CurrentIsLiveRead ==
    tracked =>
        /\ \A a \in AttNames : current_state(instance)[a] = instance[a]
        /\ ("owner" \in DOMAIN current_state(instance)) = ("_owner_cache" \in DOMAIN instance)
        /\ (JustCaptured => current_state(instance) = LatestSnapshot)

\* A field was assigned after the last capture and current_state() differs
\* from the latest snapshot.
C1_Witness ==
    /\ tracked
    /\ last.op = "setattr"
    /\ current_state(instance) /= LatestSnapshot

\* C2 (as stated): with two or more captures made, previous_state() is the
\* snapshot of the capture before the latest one.
C2_PreviousIsSecondLatest ==
    (tracked /\ captures >= 2) => stateNo[previous_index] = captures - 1

\* C2 (amended): previous_state() is the snapshot of the latest capture, be
\* there one snapshot or two in the history; right after a capture it equals
\* a read of the instance.
C2_PreviousIsLatest ==
    tracked =>
        /\ stateNo[previous_index] = captures
        /\ previous_state = LatestSnapshot
        /\ (JustCaptured => previous_state = current_state(instance))

\* Two different snapshots are retained, so which one previous_state()
\* returns can be told.
C2_Witness ==
    /\ tracked
    /\ captures >= 2
    /\ _states[1] /= _states[2]
    /\ previous_state = _states[2]

\* C3 (as stated): after three or more captures, with nothing assigned after
\* the last one, old_state() is the snapshot taken two captures before the
\* latest (A of A, B, C), previous_state() the one before the latest (B), so
\* that changes() is the diff of B against C.
C3_OldIsTwoCapturesBack ==
    (JustCaptured /\ captures >= 3) =>
        /\ stateNo[old_index] = captures - 2
        /\ stateNo[previous_index] = captures - 1
        /\ changes = _changes(_states[1], _states[2])

\* C3 (amended): after n >= 3 captures, with nothing assigned after the last
\* one, the history holds the snapshots of captures n-1 and n only:
\* old_state() is that of capture n-1 (B), previous_state() that of capture n
\* (C) and current_state() equals it, so changes() is empty and old_changes()
\* and previous_changes() are both the diff of B against C.
C3_OldIsOneCaptureBack ==
    (JustCaptured /\ captures >= 3) =>
        /\ stateNo = <<captures - 1, captures>>
        /\ stateNo[old_index] = captures - 1
        /\ stateNo[previous_index] = captures
        /\ current_state(instance) = previous_state
        /\ changes = Returned(<< >>)
        /\ old_changes = _changes(_states[1], _states[2])
        /\ previous_changes = _changes(_states[1], _states[2])

\* Three captures were made, the last one a save that changed a field.
C3_Witness ==
    /\ JustCaptured
    /\ captures = 3
    /\ last.op = "_post_save"
    /\ old_changes.exc = NoError
    /\ old_changes.val /= << >>

\* C4 (as stated): right after a DELETE capture of an instance whose latest
\* snapshot had the key k, current_state() has a null key, previous_state()
\* has the key k and changes() maps the key to (k, null).
C4_DeletePreviousHasKey ==
    (tracked /\ last.op = "_save_state(DELETE)" /\ _states[1][pk_attname] /= None) =>
        /\ current_state(instance)[pk_attname] = None
        /\ previous_state[pk_attname] = _states[1][pk_attname]
        /\ changes.exc = NoError
        /\ pk_attname \in DOMAIN changes.val
        /\ changes.val[pk_attname] = <<_states[1][pk_attname], None>>

\* C4 (amended): right after a DELETE capture of an instance whose latest
\* snapshot had the key k, current_state() and previous_state() both have a
\* null key (previous_state() is the snapshot just taken), old_state() has
\* the key k, changes() is empty, and old_changes() and previous_changes(),
\* when they return, map the key to (k, null).
C4_DeleteOldHasKey ==
    (tracked /\ last.op = "_save_state(DELETE)" /\ _states[1][pk_attname] /= None) =>
        /\ instance[pk_attname] = None
        /\ current_state(instance)[pk_attname] = None
        /\ previous_state[pk_attname] = None
        /\ old_state[pk_attname] = _states[1][pk_attname]
        /\ changes = Returned(<< >>)
        /\ \A d \in {old_changes, previous_changes} :
              d.exc = NoError =>
                  /\ pk_attname \in DOMAIN d.val
                  /\ d.val[pk_attname] = <<_states[1][pk_attname], None>>

\* A DELETE capture was made of an instance that had the key 1.
C4_Witness ==
    /\ tracked
    /\ last.op = "_save_state(DELETE)"
    /\ _states[1][pk_attname] = 1
    /\ previous_changes.exc = NoError

\* C5: once the tracker is attached (after __init__ and after every
\* _save_state), the history holds one or two snapshots, never none and
\* never three; so does the history the receivers of post_change see.
C5_HistoryOneOrTwo ==
    /\ tracked => Len(_states) \in 1..2
    /\ sent > 0 => Len(seen) \in 1..2

\* Three captures were made and the history holds two snapshots.
C5_Witness ==
    /\ tracked
    /\ captures >= 3
    /\ Len(_states) = 2

\* C6: the capture of __init__ sends nothing; every later capture sends one
\* post_change, after the push and the eviction, so that what the receivers
\* see is the history with the new snapshot as its last entry; after the
\* construction and n more captures, n notifications were sent.
C6_OneNotificationPerLaterCapture ==
    /\ ~tracked => (sent = 0 /\ captures = 0)
    /\ tracked => sent = captures - 1
    /\ sent = 0 => seen = << >>
    /\ sent > 0 => (seen = _states /\ Len(seen) <= 2)
    /\ (JustCaptured /\ sent > 0) => seen[Len(seen)] = current_state(instance)

\* Two captures after the construction, two notifications.
C6_Witness ==
    /\ JustCaptured
    /\ captures = 3
    /\ sent = 2
    /\ seen[1] /= seen[2]

\* C7: a post_delete signal for an instance with a tracker goes through the
\* tracker as a post_save does: no exception, one snapshot pushed, one
\* post_change sent.
C7_PostDeleteCaptures ==
    [][(tracked /\ _post_delete) =>
          /\ last'.exc = NoError
          /\ captures' = captures + 1
          /\ stateNo'[Len(stateNo')] = captures + 1
          /\ _states'[Len(_states')] = current_state(instance')
          /\ sent' = sent + 1]_vars

\* C8: was_persisted() is bool(old_state()[pk]) and is_persisted() is
\* bool(instance.pk); an instance built without a key and then saved, the
\* save assigning the key, has was_persisted() false and is_persisted() true;
\* an instance loaded with a key and then deleted has was_persisted() true
\* and is_persisted() false.
C8_PersistedAcrossSaveAndDelete ==
    tracked =>
        /\ was_persisted = (old_state[pk_attname] \notin {None, 0})
        /\ is_persisted = (instance[pk_attname] \notin {None, 0})
        /\ (captures = 2 /\ last.op = "_post_save"
               /\ _states[1][pk_attname] = None /\ _states[2][pk_attname] /= None)
              => (~was_persisted /\ is_persisted)
        /\ (captures = 1 /\ last.op = "_post_delete" /\ _states[1][pk_attname] /= None)
              => (was_persisted /\ ~is_persisted)

\* d is the mapping of the keys whose values differ between earlier and
\* later, each to the pair of its two values.
IsDiffOf(d, earlier, later) ==
    /\ d.exc = NoError
    /\ DOMAIN d.val = {k \in DOMAIN earlier \cap DOMAIN later : earlier[k] /= later[k]}
    /\ \A k \in DOMAIN d.val : d.val[k] = <<earlier[k], later[k]>>

\* C9: in every reachable state changes() returns the mapping of the fields
\* that differ between previous_state() and current_state(), old_changes()
\* that between old_state() and current_state(), previous_changes() that
\* between old_state() and previous_state().
C9_DiffsAreExact ==
    tracked =>
        /\ IsDiffOf(changes, previous_state, current_state(instance))
        /\ IsDiffOf(old_changes, old_state, current_state(instance))
        /\ IsDiffOf(previous_changes, old_state, previous_state)

\* C10 (as stated): whatever happens between two calls of changes(), as long
\* as it is no capture, both return the same mapping; that is, no step other
\* than a capture changes what changes() returns.
C10_ChangesStableWithoutCapture ==
    [][(tracked /\ captures' = captures) => changes' = changes]_vars

\* C10 (amended): two calls of changes() with no capture and no change of the
\* instance's fields or relation cache in between return the same mapping.
C10_ChangesStableWithoutCaptureOrAssignment ==
    memo /= NoCall => (tracked /\ changes = memo)

\* changes() returned a mapping that is not empty, a post_delete signal was
\* handled since, and a second call is about to be made.
C10_Witness ==
    /\ memo.exc = NoError
    /\ memo.val /= << >>
    /\ last.op = "_post_delete"
    /\ captures >= 2

\* C11 (as stated): with one capture made, the construction's, and whatever
\* was assigned to the instance since, old_state(), previous_state() and
\* current_state() are equal and the three diffs are empty.
C11_AllStatesEqualAfterOneCapture ==
    (tracked /\ captures = 1) =>
        /\ old_state = previous_state
        /\ previous_state = current_state(instance)
        /\ changes = Returned(<< >>)
        /\ old_changes = Returned(<< >>)
        /\ previous_changes = Returned(<< >>)

\* C11 (amended): with one capture made, old_state() and previous_state()
\* are the same snapshot and previous_changes() is empty; changes() and
\* old_changes() agree; current_state() equals the snapshot, and the three
\* diffs are empty, as long as nothing was assigned since the construction.
C11_OldEqualsPreviousAfterOneCapture ==
    (tracked /\ captures = 1) =>
        /\ Len(_states) = 1
        /\ old_state = previous_state
        /\ previous_changes = Returned(<< >>)
        /\ changes = old_changes
        /\ JustCaptured =>
              /\ current_state(instance) = previous_state
              /\ changes = Returned(<< >>)

\* One capture was made and a field assigned since: changes() is not empty,
\* previous_changes() is.
C11_Witness ==
    /\ tracked
    /\ captures = 1
    /\ last.op = "setattr"
    /\ changes.exc = NoError
    /\ changes.val /= << >>
    /\ previous_changes = Returned(<< >>)

\* C12: the history is a window of the two latest captures, oldest first:
\* after n >= 2 captures it holds those of captures n-1 and n; a capture made
\* on a full history drops the oldest entry and keeps the other as it was;
\* old_state() is the oldest entry retained.
C12_FifoWindowOfTwo ==
    /\ [](tracked =>
            /\ captures = 1 => stateNo = <<1>>
            /\ captures >= 2 => stateNo = <<captures - 1, captures>>
            /\ Len(_states) = Len(stateNo)
            /\ stateNo[old_index] = stateNo[1]
            /\ old_state = _states[1])
    /\ [][(tracked /\ captures' = captures + 1) =>
            /\ _states'[Len(_states')] = current_state(instance')
            /\ Len(_states) = 1 => _states' = <<_states[1], current_state(instance')>>
            /\ Len(_states) = 2 => _states' = <<_states[2], current_state(instance')>>]_vars

\* A third capture was pushed onto a full history.
C12_Witness ==
    /\ JustCaptured
    /\ captures >= 3
    /\ Len(_states) = 2
    /\ _states[1] /= _states[2]
    /\ old_state = _states[1]

\* C13: all snapshots of one instance have the same keys, also when the
\* relation cache was filled or dropped between two captures, so that a diff
\* of two snapshots finds every key of the earlier one in the later one and
\* leaves out no key the later one has alone.
C13_SnapshotsShareKeys ==
    (tracked /\ Len(_states) = 2) =>
        /\ DOMAIN _states[1] = DOMAIN _states[2]
        /\ previous_changes.exc = NoError

C18_CaptureWritesOnlyDeletedKey ==
    [][(captures' = captures + 1) =>
          IF last'.op = "_save_state(DELETE)"
          THEN /\ instance' = [instance EXCEPT ![pk_attname] = None]
               /\ _states'[Len(_states')][pk_attname] = None
               /\ _states'[Len(_states')] =
                      current_state([instance EXCEPT ![pk_attname] = None])
          ELSE /\ instance' = instance
               /\ _states'[Len(_states')] = current_state(instance)]_vars

\* A DELETE capture was made of an instance that had a key: the key is gone
\* from the instance and from the snapshot, the name is as it was.
C18_Witness ==
    /\ tracked
    /\ last.op = "_save_state(DELETE)"
    /\ _states[1][pk_attname] /= None
    /\ instance[pk_attname] = None
    /\ LatestSnapshot[pk_attname] = None
    /\ LatestSnapshot["name"] = instance["name"]

\* C14: whatever the order in which the keys of the snapshot are assigned,
\* reading the fields of the instance old_instance() returns gives
\* old_state(), and reading those of previous_instance() gives
\* previous_state().
C14_InstanceRoundTrip ==
    tracked =>
        /\ \A r \in old_instance : current_state(r) = old_state
        /\ \A r \in previous_instance : current_state(r) = previous_state

\* A call of one of the query methods.
QueryStep ==
    \/ CallChanges
    \/ CallOldInstance
    \/ CallPreviousInstance
    \/ CallReadQuery

\* C19: a call of a query method leaves the history, the instance's fields
\* and the count of notifications as they are; the object old_instance() or
\* previous_instance() returns is a new one, not the tracked instance.
C19_QueriesChangeNothing ==
    /\ [][QueryStep =>
            /\ _states' = _states
            /\ instance' = instance
            /\ sent' = sent
            /\ seen' = seen
            /\ captures' = captures]_vars
    /\ [](returned \in {NoObject, NewObject})

\* old_instance() or previous_instance() returned an object for a history of
\* two different snapshots, fields having been assigned since the capture.
C19_Witness ==
    /\ tracked
    /\ returned = NewObject
    /\ Len(_states) = 2
    /\ _states[1] /= _states[2]
    /\ last.op = "setattr"

\* C17: when a field read raises during _save_state, the caller gets that
\* exception, the history is what it was before the call and nothing is sent;
\* the history never holds three entries once _save_state is left.
C17_FailedCaptureLeavesHistory ==
    /\ [][\A e \in {SAVE, DELETE} : \A exc \in ReadErrors :
            CallSaveStateReadRaises(e, exc) =>
                /\ last'.exc = exc
                /\ _states' = _states
                /\ stateNo' = stateNo
                /\ captures' = captures
                /\ sent' = sent
                /\ seen' = seen]_vars
    /\ [](Len(_states) <= 2 /\ Len(_states) = Len(stateNo))

\* A capture failed with KeyError on a full history, after two notified ones.
C17_Witness ==
    /\ tracked
    /\ last = Raised("_save_state", "KeyError")
    /\ Len(_states) = 2
    /\ captures = 3
    /\ sent = 2

\* ------------------------------------------------------------------- C16
\* C16: register called with its default arguments for a model that is
\* already in the registry raises AlreadyRegistered and leaves the registry
\* unchanged; register for an abstract model raises ImproperlyConfigured and
\* does not add it.
C16_RegisterRejectsExistingAndAbstract ==
    [][\A m \in Models :
          Register(<<m>>, allow_existing_default) =>
              /\ m \in DOMAIN _registry =>
                     /\ last'.exc = "AlreadyRegistered"
                     /\ _registry' = _registry
              /\ m \in AbstractModels =>
                     /\ last'.exc = "ImproperlyConfigured"
                     /\ m \notin DOMAIN _registry']_vars


====
